---- MODULE Spec2Model ----
(***************************************************************************)
(* Model of lib/main/build-site.js: the document tree that marky-markdown  *)
(* hands to build() and the six rewrite passes build() runs over it.       *)
(*                                                                         *)
(* The tree is an arena: dom is a sequence of node records, a node handle  *)
(* is its index, node 1 is the Cheerio root.  A record holds the node's    *)
(* type, tag name, class tokens (<<>> = no class attribute), id and href   *)
(* ("" = absent), text data, ordered child handles and parent handle       *)
(* (0 = detached).  Text data is a sequence of atoms; the atoms "<hr>" and  *)
(* "<div></div>" stand for those characters held as decoded text.          *)
(***************************************************************************)
EXTENDS Integers, Sequences, FiniteSets, TLC

VARIABLES
  doc,    \* the tree as marky-markdown parsed it
  dom,    \* the tree the passes rewrite in place
  snap,   \* dom as it was before the latest step
  pc,     \* the step build() is about to take
  conts,  \* the highlight containers each() has still to visit
  ext,    \* the language detected for the container being tidied
  moved   \* per repaired paragraph, the nodes handed to prepend, in order

vars == <<doc, dom, snap, pc, conts, ext, moved>>

(* ------------------------------ bounds --------------------------------- *)
MaxSibs == 5
MaxItems == 2
MaxDepth == 3
MaxLines == 2

(* --------------------------- node records ------------------------------ *)
TextNode(data) ==
  [type |-> "text", name |-> "", class |-> <<>>, id |-> "", href |-> "",
   data |-> data, kids |-> <<>>]

Elem(name, class, kids) ==
  [type |-> "tag", name |-> name, class |-> class, id |-> "", href |-> "",
   data |-> <<>>, kids |-> kids]

RootNode ==
  [type |-> "root", name |-> "root", class |-> <<>>, id |-> "", href |-> "",
   data |-> <<>>, kids |-> <<>>, parent |-> 0]

Has(seq, x) == \E i \in 1..Len(seq) : seq[i] = x

IsTag(d, n) == d[n].type = "tag"

IsNamed(d, n, name) == d[n].type = "tag" /\ d[n].name = name

(* ------------------- serialising and parsing markup -------------------- *)
\* Adjacent text runs of a markup string are one text node once parsed, and
\* an empty text run is nothing.
RECURSIVE Merge(_)
Merge(F) ==
  IF F = <<>> THEN <<>>
  ELSE LET h == Head(F)
           r == Merge(Tail(F))
       IN IF h.type # "text" THEN <<h>> \o r
          ELSE IF h.data = <<>> THEN r
          ELSE IF r # <<>> /\ Head(r).type = "text"
               THEN <<TextNode(h.data \o Head(r).data)>> \o Tail(r)
               ELSE <<h>> \o r

\* $(n).html(): the markup of n's children, as the forest it parses back to.
\* Text is entity-encoded on the way out, so text stays text.
RECURSIVE Html(_, _)
Outer(d, k) ==
  [type |-> d[k].type, name |-> d[k].name, class |-> d[k].class,
   id |-> d[k].id, href |-> d[k].href, data |-> d[k].data, kids |-> Html(d, k)]
Html(d, n) == Merge([i \in 1..Len(d[n].kids) |-> Outer(d, d[n].kids[i])])

\* $(n).text(): the decoded text of all text descendants, concatenated.
RECURSIVE Text(_, _), TextOfList(_, _)
Text(d, n) ==
  IF d[n].type = "text" THEN d[n].data ELSE TextOfList(d, d[n].kids)
TextOfList(d, ks) ==
  IF ks = <<>> THEN <<>> ELSE Text(d, Head(ks)) \o TextOfList(d, Tail(ks))

\* A string handed to replaceWith is parsed as markup: decoded text that
\* spells a tag becomes an element.
ParseText(atoms) ==
  Merge([i \in 1..Len(atoms) |->
          CASE atoms[i] = "<hr>" -> Elem("hr", <<>>, <<>>)
            [] atoms[i] = "<div></div>" -> Elem("div", <<>>, <<>>)
            [] OTHER -> TextNode(<<atoms[i]>>)])

\* Parsing a forest allocates fresh nodes under parent par.
RECURSIVE AddForest(_, _, _)
AddForest(d, F, par) ==
  IF F = <<>> THEN [dom |-> d, ids |-> <<>>]
  ELSE LET t == Head(F)
           id == Len(d) + 1
           d1 == Append(d, [type |-> t.type, name |-> t.name, class |-> t.class,
                            id |-> t.id, href |-> t.href, data |-> t.data,
                            kids |-> <<>>, parent |-> par])
           sub == AddForest(d1, t.kids, id)
           d2 == [sub.dom EXCEPT ![id].kids = sub.ids]
           rest == AddForest(d2, Tail(F), par)
       IN [dom |-> rest.dom, ids |-> <<id>> \o rest.ids]

(* ----------------------------- traversal ------------------------------- *)
\* Descendants of n in document order.
RECURSIVE Desc(_, _), DescList(_, _)
Desc(d, n) == DescList(d, d[n].kids)
DescList(d, ks) ==
  IF ks = <<>> THEN <<>>
  ELSE <<Head(ks)>> \o Desc(d, Head(ks)) \o DescList(d, Tail(ks))

All(d) == Desc(d, 1)

IndexOf(seq, x) == CHOOSE i \in 1..Len(seq) : seq[i] = x

\* node.prev / node.next: the raw sibling links, text nodes included.
Prev(d, n) ==
  IF d[n].parent = 0 THEN 0
  ELSE LET ks == d[d[n].parent].kids
           i == IndexOf(ks, n)
       IN IF i = 1 THEN 0 ELSE ks[i - 1]

NextSib(d, n) ==
  IF d[n].parent = 0 THEN 0
  ELSE LET ks == d[d[n].parent].kids
           i == IndexOf(ks, n)
       IN IF i = Len(ks) THEN 0 ELSE ks[i + 1]

\* $(n).prev() and the + combinator: the previous element sibling.
RECURSIVE PrevElem(_, _)
PrevElem(d, n) ==
  LET p == Prev(d, n)
  IN IF p = 0 THEN 0 ELSE IF IsTag(d, p) THEN p ELSE PrevElem(d, p)

ElemKids(d, n) == SelectSeq(d[n].kids, LAMBDA k : IsTag(d, k))

\* :empty - no element and no text children.
IsEmpty(d, n) ==
  \A i \in 1..Len(d[n].kids) : d[d[n].kids[i]].type \notin {"tag", "text"}

\* Ancestors of n, nearest first.
RECURSIVE Ancestors(_, _)
Ancestors(d, n) ==
  LET p == d[n].parent
  IN IF p = 0 THEN <<>> ELSE <<p>> \o Ancestors(d, p)

(* ---------------------------- manipulation ----------------------------- *)
Without(seq, x) == SelectSeq(seq, LAMBDA y : y # x)

\* $(n).remove()
Remove(d, n) ==
  LET p == d[n].parent
  IN IF p = 0 THEN d
     ELSE [d EXCEPT ![p].kids = Without(@, n), ![n].parent = 0]

\* $(n).replaceWith(markup): no-op on a node without parent; otherwise the
\* parsed nodes take n's place and n is cut loose with its subtree.
ReplaceWith(d, n, F) ==
  LET p == d[n].parent
  IN IF p = 0 THEN d
     ELSE LET r == AddForest(d, F, p)
              ks == d[p].kids
              i == IndexOf(ks, n)
          IN [r.dom EXCEPT
                ![p].kids = SubSeq(ks, 1, i - 1) \o r.ids \o SubSeq(ks, i + 1, Len(ks)),
                ![n].parent = 0]

\* Variant: the node goes to the back of p's children (append for prepend).
Prepend_AtEnd(d, p, n) ==
  LET d1 == [d EXCEPT ![d[n].parent].kids = SelectSeq(@, LAMBDA y : y # n)]
  IN [d1 EXCEPT ![p].kids = Append(@, n), ![n].parent = p]

\* $(p).prepend(node): an existing node moves to the front of p's children.
Prepend(d, p, n) ==
  LET d1 == Remove(d, n)
  IN [d1 EXCEPT ![p].kids = <<n>> \o @, ![n].parent = p]

\* $(n).html(markup) and $(n).text(string): the old children are cut loose
\* and the new content becomes n's only content.
SetHtml(d, n, F) ==
  LET d1 == [k \in 1..Len(d) |->
               IF Has(d[n].kids, k) THEN [d[k] EXCEPT !.parent = 0] ELSE d[k]]
      r == AddForest(d1, F, n)
  IN [r.dom EXCEPT ![n].kids = r.ids]

SetText(d, n, data) == SetHtml(d, n, <<TextNode(data)>>)

(* ------------------------------ autoLink ------------------------------- *)
\* Text atoms made of word characters only.
WordAtoms == {"x", "_", "map"}

\* Text atoms of the form "_." + word characters, with the part after the dot.
MethodId(atom) ==
  CASE atom = "_.map" -> "map"
    [] atom = "_._" -> "_"
    [] OTHER -> ""

RECURSIVE Concat(_)
Concat(atoms) ==
  IF atoms = <<>> THEN "" ELSE Head(atoms) \o Concat(Tail(atoms))

\* /^_\.\w+$/.test(html)
IsMethodRef(F) ==
  /\ Len(F) = 1
  /\ F[1].type = "text"
  /\ MethodId(Head(F[1].data)) # ""
  /\ \A i \in 2..Len(F[1].data) : F[1].data[i] \in WordAtoms

\* `<a href="#${ id }"><code>_.${ id }</code></a>`
LinkMarkup(F) ==
  LET data == F[1].data
      id == MethodId(Head(data)) \o Concat(Tail(data))
  IN <<[Elem("a", <<>>, <<Elem("code", <<>>, <<TextNode(data)>>)>>)
         EXCEPT !.href = "#" \o id]>>

InDocContainer(d, n) ==
  LET anc == Ancestors(d, n)
  IN \E i \in 1..Len(anc) : IsTag(d, anc[i]) /\ Has(d[anc[i]].class, "doc-container")

\* Variant: code elements already inside an anchor are not selected.
DocCodes_SkipLinked(d) ==
  SelectSeq(All(d), LAMBDA n :
    IsNamed(d, n, "code") /\ InDocContainer(d, n) /\ ~IsNamed(d, d[n].parent, "a"))

\* $('.doc-container code')
DocCodes(d) ==
  SelectSeq(All(d), LAMBDA n : IsNamed(d, n, "code") /\ InDocContainer(d, n))

RECURSIVE AutoLinkEach(_, _)
AutoLinkEach(d, codes) ==
  IF codes = <<>> THEN d
  ELSE LET html == Html(d, Head(codes))
           d1 == IF IsMethodRef(html)
                 THEN ReplaceWith(d, Head(codes), LinkMarkup(html))
                 ELSE d
       IN AutoLinkEach(d1, Tail(codes))

autoLink(d) == AutoLinkEach(d, DocCodes(d))

(* --------------------------- renameLodashId ---------------------------- *)
renameLodashId(d) ==
  LET live == All(d)
  IN [n \in 1..Len(d) |->
       IF ~Has(live, n) THEN d[n]
       ELSE [d[n] EXCEPT !.id = IF @ = "_" THEN "lodash" ELSE @,
                         !.href = IF @ = "#_" THEN "#lodash" ELSE @]]

(* ------------------------ removeHorizontalRules ------------------------ *)
RECURSIVE RemoveEach(_, _)
RemoveEach(d, ns) ==
  IF ns = <<>> THEN d ELSE RemoveEach(Remove(d, Head(ns)), Tail(ns))

\* $('hr')
Rules(d) == SelectSeq(All(d), LAMBDA n : IsNamed(d, n, "hr"))

removeHorizontalRules(d) == RemoveEach(d, Rules(d))

(* ------------------------ removeMarkyAttributes ------------------------ *)
\* ids that start with "user-content-"
MarkyIds == {"user-content-x"}

ClearMarky(d) ==
  LET live == All(d)
  IN [n \in 1..Len(d) |->
       IF Has(live, n) /\ d[n].id \in MarkyIds
       THEN [d[n] EXCEPT !.class = <<>>, !.id = ""]
       ELSE d[n]]

Headers == {"h1", "h2", "h3", "h4", "h5", "h6"}

\* Variant: only an anchor that is its heading's sole child is selected.
HeaderAnchors_SoleChild(d) ==
  SelectSeq(All(d), LAMBDA n :
    /\ IsNamed(d, n, "a")
    /\ IsTag(d, d[n].parent)
    /\ d[d[n].parent].name \in Headers \ {"h3"}
    /\ Len(d[d[n].parent].kids) = 1)

\* $(':header:not(h3) > a')
HeaderAnchors(d) ==
  SelectSeq(All(d), LAMBDA n :
    /\ IsNamed(d, n, "a")
    /\ IsTag(d, d[n].parent)
    /\ d[d[n].parent].name \in Headers \ {"h3"})

RECURSIVE UnwrapEach(_, _)
UnwrapEach(d, as) ==
  IF as = <<>> THEN d
  ELSE UnwrapEach(ReplaceWith(d, Head(as), Html(d, Head(as))), Tail(as))

removeMarkyAttributes(d) ==
  LET d1 == ClearMarky(d)
  IN UnwrapEach(d1, HeaderAnchors(d1))

(* ------------------------- repairMarkyHeaders -------------------------- *)
RECURSIVE Uniq(_)
Uniq(seq) ==
  IF seq = <<>> THEN <<>>
  ELSE LET r == Uniq(SubSeq(seq, 1, Len(seq) - 1))
           x == seq[Len(seq)]
       IN IF Has(r, x) THEN r ELSE Append(r, x)

\* Variant: the sibling before the empty paragraph is selected.
LeadingEmpties_BeforeTrigger(d) ==
  LET h3s == SelectSeq(All(d), LAMBDA n :
               /\ IsNamed(d, n, "h3")
               /\ PrevElem(d, n) # 0
               /\ IsNamed(d, PrevElem(d, n), "p")
               /\ IsEmpty(d, PrevElem(d, n))
               /\ Prev(d, PrevElem(d, n)) # 0)
  IN Uniq([i \in 1..Len(h3s) |-> Prev(d, PrevElem(d, h3s[i]))])

\* $('p:empty + h3').prev()
LeadingEmpties(d) ==
  LET h3s == SelectSeq(All(d), LAMBDA n :
               /\ IsNamed(d, n, "h3")
               /\ PrevElem(d, n) # 0
               /\ IsNamed(d, PrevElem(d, n), "p")
               /\ IsEmpty(d, PrevElem(d, n)))
  IN Uniq([i \in 1..Len(h3s) |-> PrevElem(d, h3s[i])])

RepairLeading(d) == RemoveEach(d, LeadingEmpties(d))

\* $('h3 ~ p:empty')
TrailingEmpties(d) ==
  SelectSeq(All(d), LAMBDA n :
    /\ IsNamed(d, n, "p")
    /\ IsEmpty(d, n)
    /\ LET ks == d[d[n].parent].kids
       IN \E i \in 1..(IndexOf(ks, n) - 1) : IsNamed(d, ks[i], "h3"))

\* while ((node = node.prev) && node.name != 'h3' && node.name != 'p')
\*   $p.prepend(node.next);
\* log collects the nodes handed to prepend, in the order they were moved.
RECURSIVE Walk(_, _, _, _)
Walk(d, p, node, log) ==
  LET n2 == Prev(d, node)
  IN IF n2 # 0 /\ ~IsNamed(d, n2, "h3") /\ ~IsNamed(d, n2, "p")
     THEN LET m == NextSib(d, n2)
          IN Walk(Prepend(d, p, m), p, n2, Append(log, m))
     ELSE [dom |-> d, log |-> log]

RECURSIVE WalkEach(_, _, _)
WalkEach(d, ps, logs) ==
  IF ps = <<>> THEN [dom |-> d, logs |-> logs]
  ELSE LET p == Head(ps)
           w == Walk(d, p, Prev(d, p), <<>>)
       IN WalkEach(w.dom, Tail(ps), Append(logs, [p |-> p, nodes |-> w.log]))

RepairTrailing(d) == WalkEach(d, TrailingEmpties(d), <<>>)

\* html.replace(/<\/?em>/g, '_') on a markup string
RECURSIVE EmFlat(_)
EmFlat(F) ==
  IF F = <<>> THEN <<>>
  ELSE LET h == Head(F)
       IN IF h.type = "tag" /\ h.name = "em"
          THEN <<TextNode(<<"_">>)>> \o EmFlat(h.kids) \o <<TextNode(<<"_">>)>>
               \o EmFlat(Tail(F))
          ELSE IF h.type = "tag"
          THEN <<[h EXCEPT !.kids = Merge(EmFlat(h.kids))]>> \o EmFlat(Tail(F))
          ELSE <<h>> \o EmFlat(Tail(F))

\* $('h3 code em').parent()
EmParents(d) ==
  LET ems == SelectSeq(All(d), LAMBDA n :
               /\ IsNamed(d, n, "em")
               /\ LET anc == Ancestors(d, n)
                  IN \E i \in 1..Len(anc) : \E j \in (i + 1)..Len(anc) :
                       IsNamed(d, anc[i], "code") /\ IsNamed(d, anc[j], "h3"))
  IN Uniq([i \in 1..Len(ems) |-> d[ems[i]].parent])

RECURSIVE EmEach(_, _)
EmEach(d, cs) ==
  IF cs = <<>> THEN d
  ELSE EmEach(SetHtml(d, Head(cs), Merge(EmFlat(Html(d, Head(cs))))), Tail(cs))

RepairEmphasis(d) == EmEach(d, EmParents(d))

(* --------------------------- tidyHighlights ---------------------------- *)
highlights(e) ==
  CASE e = "html" -> {"string"}
    [] e = "js" -> {"comment", "console", "delimiter", "method", "modifier",
                    "name", "numeric", "string", "support", "type"}
    [] OTHER -> {}

\* $('.highlight')
Containers(d) ==
  SelectSeq(All(d), LAMBDA n : IsTag(d, n) /\ Has(d[n].class, "highlight"))

\* Variant: only the source marker is looked for.
Markers_SourceOnly(d, c) ==
  SelectSeq(Desc(d, c), LAMBDA n : IsTag(d, n) /\ Has(d[n].class, "source"))

\* $parent.find('.source,.text')
Markers(d, c) ==
  SelectSeq(Desc(d, c), LAMBDA n :
    IsTag(d, n) /\ (Has(d[n].class, "source") \/ Has(d[n].class, "text")))

\* .first().attr('class').split(' ').pop()
DetectExt(d, c) ==
  LET cls == d[Head(Markers(d, c))].class
  IN cls[Len(cls)]

\* $parent.addClass(ext)
AddClass(d, n, e) ==
  IF e = "" \/ Has(d[n].class, e) THEN d
  ELSE [d EXCEPT ![n].class = Append(@, e)]

\* _.intersection(classes, highlights[ext]), written back or cleared
Whitelist(d, c, e) ==
  LET below == Desc(d, c)
  IN [n \in 1..Len(d) |->
       IF Has(below, n) /\ IsTag(d, n) /\ d[n].class # <<>>
       THEN [d[n] EXCEPT !.class = Uniq(SelectSeq(@, LAMBDA t : t \in highlights(e)))]
       ELSE d[n]]

\* $parent.find('span:not([class])')
PlainSpans(d, c) ==
  SelectSeq(Desc(d, c), LAMBDA n : IsNamed(d, n, "span") /\ d[n].class = <<>>)

\* The loop at lines 134-142: replace a childless plain span by its text,
\* then look at what was its parent.
RECURSIVE UnwrapUp(_, _)
UnwrapUp(d, e) ==
  IF e # 0 /\ IsNamed(d, e, "span") /\ d[e].class = <<>> /\ ElemKids(d, e) = <<>>
  THEN UnwrapUp(ReplaceWith(d, e, ParseText(Text(d, e))), d[e].parent)
  ELSE d

RECURSIVE UnwrapSpans(_, _)
UnwrapSpans(d, spans) ==
  IF spans = <<>> THEN d ELSE UnwrapSpans(UnwrapUp(d, Head(spans)), Tail(spans))

\* The loop at lines 147-154: replace a plain span by its markup, then look
\* at what was its parent.
RECURSIVE CollapseUp(_, _)
CollapseUp(d, e) ==
  IF e # 0 /\ IsNamed(d, e, "span") /\ d[e].class = <<>>
  THEN CollapseUp(ReplaceWith(d, e, Html(d, e)), d[e].parent)
  ELSE d

RECURSIVE CollapseSpans(_, _)
CollapseSpans(d, spans) ==
  IF spans = <<>> THEN d ELSE CollapseSpans(CollapseUp(d, Head(spans)), Tail(spans))

Collapse(d, c) == CollapseSpans(d, PlainSpans(d, c))

\* $parent.find(`[class~="${ cls }"] > [class~="${ cls }"]`)
Nested(d, c, cls) ==
  SelectSeq(Desc(d, c), LAMBDA n :
    /\ IsTag(d, n) /\ Has(d[n].class, cls)
    /\ IsTag(d, d[n].parent) /\ Has(d[d[n].parent].class, cls))

\* $parent.text($parent.text()) for the parent of each match
RECURSIVE FlattenEach(_, _)
\* Variant: the matched element is flattened instead of its parent.
FlattenEach_Self(d, es) ==
  IF es = <<>> THEN d
  ELSE FlattenEach(SetText(d, Head(es), Text(d, Head(es))), Tail(es))

FlattenEach(d, es) ==
  IF es = <<>> THEN d
  ELSE LET par == d[Head(es)].parent
           d1 == IF par = 0 THEN d ELSE SetText(d, par, Text(d, par))
       IN FlattenEach(d1, Tail(es))

Flatten(d, c, cls) == FlattenEach(d, Nested(d, c, cls))

Dedupe(d, c) == Flatten(Flatten(d, c, "comment"), c, "string")

\* $parent.children('pre')
Pres(d, c) == SelectSeq(d[c].kids, LAMBDA n : IsNamed(d, n, "pre"))

\* $(this).children('div')
Divs(d, pre) == SelectSeq(d[pre].kids, LAMBDA n : IsNamed(d, n, "div"))

RECURSIVE LinesEach(_, _)
LinesEach(d, pres) ==
  IF pres = <<>> THEN d
  ELSE LET divs == Divs(d, Head(pres))
           d1 == IF Len(divs) = 1
                 THEN ReplaceWith(d, divs[1], Html(d, divs[1]))
                 ELSE d
       IN LinesEach(d1, Tail(pres))

SingleLines(d, c) == LinesEach(d, Pres(d, c))

(* ------------------------------- inputs -------------------------------- *)
\* marky(markdown): the parsed document under the Cheerio root.
Load(F) ==
  LET r == AddForest(<<RootNode>>, F, 1)
  IN [r.dom EXCEPT ![1].kids = r.ids]

Tx == TextNode(<<"x">>)

Attr(e, id, href) == [e EXCEPT !.id = id, !.href = href]

\* Sibling runs around level-3 headings, as marky-markdown issue 217 leaves
\* them: headings, empty and filled paragraphs, loose text and inline nodes.
SibItems ==
  { Elem("h3", <<>>, <<Tx>>), Elem("p", <<>>, <<>>), Elem("p", <<>>, <<Tx>>),
    Tx, Elem("em", <<>>, <<Tx>>) }

NoTextRun(F) == \A i \in 1..(Len(F) - 1) : ~(F[i].type = "text" /\ F[i + 1].type = "text")

SibDocs ==
  { <<Elem("div", <<"doc-container">>, F)>> :
      F \in { G \in UNION { [1..n -> SibItems] : n \in 1..MaxSibs } : NoTextRun(G) } }

\* Method references, heading anchors, ids and rules of the documentation.
LinkItems ==
  { Elem("code", <<>>, <<TextNode(<<"_.map">>)>>),
    Elem("code", <<>>, <<TextNode(<<"_._">>)>>),
    Elem("code", <<>>, <<TextNode(<<"foo(_.map)">>)>>),
    Attr(Elem("h2", <<"deep-link">>, <<Attr(Elem("a", <<>>, <<Tx>>), "", "#x")>>),
         "user-content-x", ""),
    Elem("h2", <<>>, <<Attr(Elem("a", <<>>, <<Tx>>), "", "#x"), Tx>>),
    Elem("h3", <<>>, <<Attr(Elem("a", <<>>, <<Tx>>), "_", "#_")>>),
    Elem("h3", <<>>, <<Elem("code", <<>>, <<Tx, Elem("em", <<>>, <<Tx>>)>>)>>),
    Elem("hr", <<>>, <<>>),
    Elem("blockquote", <<>>, <<Elem("hr", <<>>, <<>>), Tx>>) }

LinkDocs ==
  { <<Elem("div", <<"doc-container">>, F)>> :
      F \in UNION { [1..n -> LinkItems] : n \in 1..MaxItems } }

\* Highlighted code blocks: a container holding a pre of line wrappers, the
\* first line a chain of nested token spans.
OuterClasses == { <<"source", "js">>, <<"text", "html">>, <<"meta">> }

InnerClasses == { <<"meta">>, <<"string", "quoted">>, <<"comment">> }

RECURSIVE Chain(_, _)
Chain(cs, leaf) ==
  IF cs = <<>> THEN leaf
  ELSE Elem("span", Head(cs), <<Chain(Tail(cs), leaf)>>)

Tails ==
  { [leaf |-> Tx, more |-> <<>>],
    [leaf |-> TextNode(<<"<hr>">>), more |-> <<>>],
    [leaf |-> TextNode(<<"<div></div>">>), more |-> <<>>],
    [leaf |-> Tx, more |-> <<Elem("span", <<"string">>, <<Tx>>)>>] }

LineContents ==
  { <<Elem("span", o, <<Chain(cs, t.leaf)>> \o t.more)>> :
      o \in OuterClasses,
      cs \in UNION { [1..k -> InnerClasses] : k \in 0..MaxDepth },
      t \in Tails }

PlainLine == Elem("div", <<"line">>, <<Elem("span", <<"source", "js">>, <<Tx>>)>>)

Block(content, n) ==
  Elem("div", <<"highlight">>,
       <<Elem("pre", <<"editor">>,
              IF n = 0 THEN content
              ELSE <<Elem("div", <<"line">>, content)>>
                   \o [i \in 1..(n - 1) |-> PlainLine])>>)

BlockDocs ==
  { <<Block(c, n)>> : c \in LineContents, n \in 0..MaxLines }

TwoBlocks ==
  { <<Block(c1, 1), Block(c2, 1)>> :
      c1 \in { <<Elem("span", <<"meta">>, <<Tx>>)>>, <<Elem("span", <<"source", "js">>, <<Tx>>)>> },
      c2 \in { <<Elem("span", <<"meta">>, <<Tx>>)>>, <<Elem("span", <<"text", "html">>, <<Tx>>)>> } }

Documents == SibDocs \cup LinkDocs \cup BlockDocs \cup TwoBlocks

(* --------------------------- build(): the run --------------------------- *)
Init ==
  /\ doc \in { Load(F) : F \in Documents }
  /\ dom = doc
  /\ snap = dom
  /\ pc = "autoLink"
  /\ conts = <<>>
  /\ ext = ""
  /\ moved = <<>>

Pass(here, next, result) ==
  /\ pc = here
  /\ dom' = result
  /\ snap' = dom
  /\ pc' = next

AutoLink ==
  /\ Pass("autoLink", "renameLodashId", autoLink(dom))
  /\ UNCHANGED <<doc, conts, ext, moved>>

RenameLodashId ==
  /\ Pass("renameLodashId", "removeHorizontalRules", renameLodashId(dom))
  /\ UNCHANGED <<doc, conts, ext, moved>>

RemoveHorizontalRules ==
  /\ Pass("removeHorizontalRules", "removeMarkyAttributes", removeHorizontalRules(dom))
  /\ UNCHANGED <<doc, conts, ext, moved>>

RemoveMarkyAttributes ==
  /\ Pass("removeMarkyAttributes", "repairLeading", removeMarkyAttributes(dom))
  /\ UNCHANGED <<doc, conts, ext, moved>>

RepairLeadingStep ==
  /\ Pass("repairLeading", "repairTrailing", RepairLeading(dom))
  /\ UNCHANGED <<doc, conts, ext, moved>>

RepairTrailingStep ==
  /\ Pass("repairTrailing", "repairEmphasis", RepairTrailing(dom).dom)
  /\ moved' = RepairTrailing(dom).logs
  /\ UNCHANGED <<doc, conts, ext>>

RepairEmphasisStep ==
  /\ Pass("repairEmphasis", "tidyHighlights", RepairEmphasis(dom))
  /\ conts' = Containers(dom')
  /\ UNCHANGED <<doc, ext, moved>>

\* One turn of the each() over the containers starts with language
\* detection; a container without marker throws out of the whole run.
TidyDetect ==
  /\ pc = "tidyHighlights"
  /\ conts # <<>>
  /\ snap' = dom
  /\ IF Markers(dom, Head(conts)) = <<>>
     THEN /\ pc' = "error"
          /\ UNCHANGED <<dom, ext>>
     ELSE /\ ext' = DetectExt(dom, Head(conts))
          /\ dom' = AddClass(dom, Head(conts), ext')
          /\ pc' = "classes"
  /\ UNCHANGED <<doc, conts, moved>>

TidyClasses ==
  /\ Pass("classes", "unwrap", Whitelist(dom, Head(conts), ext))
  /\ UNCHANGED <<doc, conts, ext, moved>>

TidyUnwrap ==
  /\ Pass("unwrap", "collapse", UnwrapSpans(dom, PlainSpans(dom, Head(conts))))
  /\ UNCHANGED <<doc, conts, ext, moved>>

TidyCollapse ==
  /\ Pass("collapse", "dedupe", Collapse(dom, Head(conts)))
  /\ UNCHANGED <<doc, conts, ext, moved>>

TidyDedupe ==
  /\ Pass("dedupe", "lines", Dedupe(dom, Head(conts)))
  /\ UNCHANGED <<doc, conts, ext, moved>>

TidyLines ==
  /\ Pass("lines", "tidyHighlights", SingleLines(dom, Head(conts)))
  /\ conts' = Tail(conts)
  /\ UNCHANGED <<doc, ext, moved>>

Finish ==
  /\ pc = "tidyHighlights"
  /\ conts = <<>>
  /\ pc' = "done"
  /\ snap' = dom
  /\ UNCHANGED <<doc, dom, conts, ext, moved>>

Next ==
  \/ AutoLink
  \/ RenameLodashId
  \/ RemoveHorizontalRules
  \/ RemoveMarkyAttributes
  \/ RepairLeadingStep
  \/ RepairTrailingStep
  \/ RepairEmphasisStep
  \/ TidyDetect
  \/ TidyClasses
  \/ TidyUnwrap
  \/ TidyCollapse
  \/ TidyDedupe
  \/ TidyLines
  \/ Finish

Spec == Init /\ [][Next]_vars

(* ------------------------------ properties ----------------------------- *)
Live(d) == LET a == All(d) IN { a[i] : i \in 1..Len(a) }

Below(d, n) == LET a == Desc(d, n) IN { a[i] : i \in 1..Len(a) }

Elems(seq) == { seq[i] : i \in 1..Len(seq) }

\* C1: once build() has run all six passes, the tree holds no hr element at
\* any nesting depth.
C1_NoRuleInOutput ==
  pc = "done" => \A n \in Live(dom) : ~IsNamed(dom, n, "hr")

\* What one run of autoLink is to produce, stated on markup: every code
\* element below a doc container whose content is a method reference is
\* replaced by an anchor around a fresh code element.
RECURSIVE LinkAll(_, _)
LinkAll(F, inDoc) ==
  [i \in 1..Len(F) |->
    IF F[i].type # "tag" THEN F[i]
    ELSE IF inDoc /\ F[i].name = "code" /\ IsMethodRef(F[i].kids)
         THEN LinkMarkup(F[i].kids)[1]
         ELSE [F[i] EXCEPT
                 !.kids = LinkAll(@, inDoc \/ Has(F[i].class, "doc-container"))]]

\* C2 (as claimed): running autoLink again on the tree a first run produced
\* changes nothing.
C2_Idempotent ==
  pc = "renameLodashId" => Html(autoLink(dom), 1) = Html(dom, 1)

\* C2 (amended): each run of autoLink, the first and a second one alike,
\* wraps every method-reference code element of the doc container in one
\* more anchor and changes nothing else.
C2_EachRunWrapsOnce ==
  pc = "renameLodashId" =>
    /\ Html(dom, 1) = LinkAll(Html(snap, 1), FALSE)
    /\ Html(autoLink(dom), 1) = LinkAll(Html(dom, 1), FALSE)

C2_LinkedOnce ==
  /\ pc = "renameLodashId"
  /\ \E n \in Live(dom) \ Live(snap) :
       /\ IsNamed(dom, n, "code")
       /\ IsNamed(dom, dom[n].parent, "a")
       /\ IsMethodRef(Html(dom, n))

\* C3: after the collapse step has run on a container, no span without a
\* class is left below it, and collapsing again changes nothing.
C3_CollapseFixedPoint ==
  pc = "dedupe" =>
    /\ \A n \in Below(dom, Head(conts)) :
         ~(IsNamed(dom, n, "span") /\ dom[n].class = <<>>)
    /\ Html(Collapse(dom, Head(conts)), 1) = Html(dom, 1)

\* Empty paragraphs whose next element sibling is a level-3 heading.
Triggers(d) ==
  LET live == Live(d)
  IN { p \in live :
         /\ IsNamed(d, p, "p")
         /\ IsEmpty(d, p)
         /\ \E h \in live : IsNamed(d, h, "h3") /\ PrevElem(d, h) = p }

\* C4 (as claimed): repair 1 removes the sibling just before each empty
\* paragraph that a level-3 heading follows, and the paragraph itself stays.
C4_RemovesNodeBeforeTrigger ==
  pc = "repairTrailing" =>
    \A p \in Triggers(snap) :
      /\ p \in Live(dom)
      /\ Prev(snap, p) # 0 => Prev(snap, p) \notin Live(dom)

\* C4 (amended): repair 1 removes exactly the empty paragraphs that a level-3
\* heading follows; the heading, the sibling before the paragraph and every
\* other node stay where they were.
C4_RemovesTriggerItself ==
  pc = "repairTrailing" =>
    LET gone == Triggers(snap)
        live == Live(dom)
    IN /\ live = Live(snap) \ gone
       /\ \A n \in live :
            dom[n].kids = SelectSeq(snap[n].kids, LAMBDA k : k \notin gone)

C4_TriggerRemoved ==
  /\ pc = "repairTrailing"
  /\ \E p \in Triggers(snap) :
       /\ p \notin Live(dom)
       /\ Prev(snap, p) # 0
       /\ Prev(snap, p) \in Live(dom)

\* Anchors that are a direct child of a heading.
HeadingAnchors(d) ==
  { a \in Live(d) :
      /\ IsNamed(d, a, "a")
      /\ IsTag(d, d[a].parent)
      /\ d[d[a].parent].name \in Headers }

\* Markup with its top-level anchors replaced by their content.
RECURSIVE Spliced(_)
Spliced(F) ==
  IF F = <<>> THEN <<>>
  ELSE (IF Head(F).type = "tag" /\ Head(F).name = "a" THEN Head(F).kids ELSE <<Head(F)>>)
       \o Spliced(Tail(F))

\* C5 (as claimed): an anchor under a heading is unwrapped exactly when the
\* heading is not level 3 and the anchor is its sole child.
C5_UnwrapsOnlySoleChild ==
  pc = "repairLeading" =>
    \A a \in HeadingAnchors(snap) :
      a \notin Live(dom) <=>
        (snap[snap[a].parent].name # "h3" /\ Len(snap[snap[a].parent].kids) = 1)

\* C5 (amended): every anchor that is a direct child of a heading of a level
\* other than 3 is unwrapped, sole child or not: the heading stays and holds
\* the anchor's content in the anchor's place; the children of a level-3
\* heading, anchors included, are left as they are.
C5_UnwrapsEveryChildAnchor ==
  pc = "repairLeading" =>
    LET live == Live(dom)
        cleared == ClearMarky(snap)
    IN \A h \in Live(snap) :
         (IsTag(snap, h) /\ snap[h].name \in Headers) =>
           /\ h \in live
           /\ IF snap[h].name = "h3"
              THEN /\ dom[h].kids = snap[h].kids
                   /\ \A k \in Elems(snap[h].kids) : dom[k].name = snap[k].name
              ELSE /\ Html(dom, h) = Merge(Spliced(Html(cleared, h)))
                   /\ \A k \in Elems(dom[h].kids) : ~IsNamed(dom, k, "a")

C5_UnwrappedBesideSiblings ==
  /\ pc = "repairLeading"
  /\ \E a \in HeadingAnchors(snap) :
       /\ snap[snap[a].parent].name # "h3"
       /\ Len(snap[snap[a].parent].kids) > 1
       /\ a \notin Live(dom)
  /\ \E a \in HeadingAnchors(snap) :
       snap[snap[a].parent].name = "h3" /\ a \in Live(dom)

Marked(d, n) ==
  IsTag(d, n) /\ Elems(d[n].class) \cap {"source", "text"} # {}

\* C6: a container without a descendant marked source or text stops the run
\* with an error right there (nothing is changed and no further step is
\* taken, so no later container is visited); a container with such a
\* descendant raises no error and gets the last class token of the first
\* such descendant as a class.
C6_MissingMarkerAborts ==
  [][ /\ pc # "error"
      /\ (pc = "tidyHighlights" /\ conts # <<>>) =>
           LET c == Head(conts)
               ms == SelectSeq(Desc(dom, c), LAMBDA n : Marked(dom, n))
           IN IF ms = <<>>
              THEN pc' = "error" /\ dom' = dom /\ conts' = conts
              ELSE /\ pc' = "classes"
                   /\ Has(dom'[c].class, dom[ms[1]].class[Len(dom[ms[1]].class)]) ]_vars

C6_AbortedBeforeLaterContainer ==
  /\ pc = "error"
  /\ Len(conts) = 2
  /\ \A n \in Below(dom, Head(conts)) : ~Marked(dom, n)
  /\ \E n \in Below(dom, conts[2]) : Marked(dom, n)
  /\ ~Has(dom[conts[2]].class, "html")

Pos(d, n) == IndexOf(d[d[n].parent].kids, n)

\* C7: when repair 2 is through with an empty paragraph, the paragraph's
\* children are exactly the nodes the walk moved into it, in the left-to-right
\* order they had as siblings before.
C7_MovedNodesKeepOrder ==
  pc = "repairEmphasis" =>
    \A i \in 1..Len(moved) :
      LET p == moved[i].p
          ks == dom[p].kids
      IN /\ Len(ks) = Len(moved[i].nodes)
         /\ Elems(ks) = Elems(moved[i].nodes)
         /\ \A a \in 1..Len(ks) : snap[ks[a]].parent = snap[p].parent
         /\ \A a, b \in 1..Len(ks) : a < b => Pos(snap, ks[a]) < Pos(snap, ks[b])

C7_SeveralMoved ==
  /\ pc = "repairEmphasis"
  /\ \E i \in 1..Len(moved) :
       /\ Len(moved[i].nodes) >= 2
       /\ \A m \in Elems(moved[i].nodes) : dom[m].name \notin {"h3", "p"}
       /\ dom[moved[i].p].kids # <<>>

SameClassChild(d, n, cls) ==
  /\ IsTag(d, n)
  /\ Has(d[n].class, cls)
  /\ \E k \in Elems(d[n].kids) : IsTag(d, k) /\ Has(d[k].class, cls)

\* C8: once a container is tidied, no element below it that carries comment
\* (or string) has a direct child element carrying the same token; an outer
\* element that had one holds just the flattened text of its former content.
C8_NoSameClassNesting ==
  /\ pc \in {"tidyHighlights", "done"} =>
       \A c \in Elems(Containers(dom)) :
         ~Has(conts, c) =>
           \A n \in Below(dom, c) : \A cls \in {"comment", "string"} :
             ~SameClassChild(dom, n, cls)
  /\ pc = "lines" =>
       /\ \A n \in Below(dom, Head(conts)) : \A cls \in {"comment", "string"} :
            ~SameClassChild(dom, n, cls)
       /\ \A n \in Below(snap, Head(conts)) \cap Live(dom) :
            \A cls \in {"comment", "string"} :
              SameClassChild(snap, n, cls) =>
                /\ Len(dom[n].kids) = 1
                /\ dom[dom[n].kids[1]].type = "text"
                /\ dom[dom[n].kids[1]].data = Text(snap, n)

C8_DeepNestingFlattened ==
  /\ pc = "lines"
  /\ \E n \in Below(snap, Head(conts)) \cap Live(dom) :
       \E k \in Elems(snap[n].kids) :
         /\ SameClassChild(snap, n, "string")
         /\ SameClassChild(snap, k, "string")
         /\ Text(dom, n) # <<>>

\* The markup of pre's children with the line wrapper div replaced by its
\* own content.
LineSpliced(d, pre, div) ==
  LET ks == d[pre].kids
      i == IndexOf(ks, div)
  IN Merge([j \in 1..(i - 1) |-> Outer(d, ks[j])] \o Html(d, div)
           \o [j \in 1..(Len(ks) - i) |-> Outer(d, ks[i + j])])

\* C9: once a container is tidied, a code block that was parsed with exactly
\* one div line wrapper has no div child and holds the wrapper's content in
\* the wrapper's place and order; a code block parsed with none or several
\* keeps them all.
C9_SingleLineUnwrap ==
  pc = "tidyHighlights" =>
    \A c \in Elems(Containers(dom)) :
      ~Has(conts, c) =>
        \A pre \in Elems(Pres(dom, c)) :
          /\ IF Len(Divs(doc, pre)) = 1
             THEN Divs(dom, pre) = <<>>
             ELSE Divs(dom, pre) = Divs(doc, pre)
          /\ Len(Divs(snap, pre)) = 1 =>
               Html(dom, pre) = LineSpliced(snap, pre, Divs(snap, pre)[1])

\* C10: in repair 2 the walk never moves a level-3 heading or a paragraph
\* into the empty paragraph.
C10_BoundariesUntouched ==
  pc = "repairEmphasis" =>
    \A i \in 1..Len(moved) : \A m \in Elems(moved[i].nodes) :
      dom[m].name \notin {"h3", "p"}

====
